---- MODULE Spec2Model ----
(***************************************************************************)
(* Model of the exploratory scripts of OttoInstagramExplorer.              *)
(*                                                                         *)
(*  - analyze_comment_structure.py: the brace-depth scan over `sample`     *)
(*    (lines 31-60), one action per branch of the loop body.               *)
(*  - find_comments_carefully.py: the per-file chunk loop with its         *)
(*    found_count counter (lines 16-49).                                   *)
(*                                                                         *)
(* Characters are one-character strings.  Python indices are 0-based, so   *)
(* the character at Python index k of a sequence s is s[k + 1].            *)
(***************************************************************************)
EXTENDS Integers, Sequences, FiniteSets, TLC

VARIABLES sample, i, depth, in_string, escape_next, pc, result,
          file_no, chunks_read, matches, found_count, fpc

scanVars == <<sample, i, depth, in_string, escape_next, pc, result>>
findVars == <<file_no, chunks_read, matches, found_count, fpc>>
vars == <<sample, i, depth, in_string, escape_next, pc, result,
          file_no, chunks_read, matches, found_count, fpc>>

(***************************************************************************)
(* Bounds of the model.                                                    *)
(***************************************************************************)
\* Longest sample enumerated exhaustively (the script reads up to 10000).
MaxLen == 5

\* The script only accepts a closing brace at an index above 1000 (line 53).
\* The model keeps the comparison and scales the offset down so that the
\* enumerated samples reach both sides of it.
MinCloseOffset == 2

\* Chunks read from one file and regex matches found in one chunk.
MaxChunks == 3
MaxMatches == 6

(***************************************************************************)
(* Program constants.                                                      *)
(***************************************************************************)
\* analyze_comment_structure.py line 53: depth == 1
TargetDepth == 1
\* find_comments_carefully.py lines 24 and 48: found_count < 5, >= 5
ExamplesPerFile == 5
\* find_comments_carefully.py line 35: matches[:5]
MatchSlice == 5
\* find_comments_carefully.py lines 8-14: the five entries of json_files
NumFiles == 5

NotFound == [start |-> -1, end |-> -1]

LBrace == "{"
RBrace == "}"
Quote == "\""
Backslash == "\\"
Colon == ":"

\* The characters the loop tells apart, and one it does not.
Chars == {LBrace, RBrace, Quote, Backslash, Colon, "x"}

RECURSIVE SeqsOfLen(_)
SeqsOfLen(n) ==
    IF n = 0 THEN {<<>>}
    ELSE {Append(s, c) : s \in SeqsOfLen(n - 1), c \in Chars}

\* The inputs named by the specification's testable properties.
EscapedQuoteExample ==
    <<"{", "\"", "a", "\"", ":", "\"", "x", "\\", "\"", "y", "\"", "}">>
BraceInStringExample ==
    <<"{", "\"", "a", "\"", ":", "\"", "{", "n", "o", "t", " ", "a", " ",
      "b", "r", "a", "c", "e", "}", "\"", "}">>
UnclosedExample == <<"{", "\"", "a", "\"", ":", "1">>
StrayCloseExample == <<"}", "{", "\"", "a", "\"", ":", "1", "}">>

Examples ==
    {EscapedQuoteExample, BraceInStringExample, UnclosedExample,
     StrayCloseExample}

SeqsUpTo(n) == UNION {SeqsOfLen(k) : k \in 0..n}

\* Samples that start one level inside a wrapping object, after a colon.
NestedSamples == {<<":", "{", "{">> \o w : w \in SeqsUpTo(MaxLen - 1)}

\* Samples whose first nested object closes exactly at index MinCloseOffset.
AtOffsetSamples ==
    {[k \in 1..(MinCloseOffset - 2) |-> "x"] \o <<"{", "{", "}">> \o w :
        w \in SeqsUpTo(MaxLen - 2)}

Samples == SeqsUpTo(MaxLen) \cup NestedSamples \cup AtOffsetSamples \cup Examples

(***************************************************************************)
(* The conditions of the loop body (analyze_comment_structure.py 36-53).   *)
(***************************************************************************)
\* A scan that forgets escapes (mutant of SetsEscape).
SetsEscapeNever(c, inStr) == FALSE

\* line 40: a backslash arms escape_next, inside a string or not.
SetsEscape(c, inStr) == c = Backslash

\* line 44: a quote toggles in_string (escape_next is already false here).
TogglesString(c, esc) == c = Quote /\ ~esc

\* A scan that counts braces inside strings too (mutant of Structural).
StructuralAlways(inStr) == TRUE

\* line 48: braces are counted only outside strings.
Structural(inStr) == ~inStr

\* Mutants of Qualifies: depth 0 as the target, no offset test, and an
\* offset test that admits the offset itself.
QualifiesAtDepthZero(d, idx) == d = 0 /\ idx > MinCloseOffset
QualifiesAnyOffset(d, idx) == d = TargetDepth
QualifiesAtOrAfter(d, idx) == d = TargetDepth /\ idx >= MinCloseOffset

\* line 53: the closing brace that ends the scan.
Qualifies(d, idx) == d = TargetDepth /\ idx > MinCloseOffset

\* line 55: sample.find(':'), the 0-based index of the first colon or -1.
FirstColon(s) ==
    IF \E k \in 1..Len(s) : s[k] = Colon
    THEN (CHOOSE k \in 1..Len(s) :
              s[k] = Colon /\ \A j \in 1..(k - 1) : s[j] # Colon) - 1
    ELSE -1

\* line 57: obj_sample = sample[first_colon+1:i+1], as a half-open span.
ObjSample(s, idx) == [start |-> FirstColon(s) + 1, end |-> idx + 1]

\* lines 50 and 52: depth after reading c outside a string.
DepthAfter(d, c) ==
    IF c = LBrace THEN d + 1 ELSE IF c = RBrace THEN d - 1 ELSE d

(***************************************************************************)
(* The scan, one action per branch of the loop body.                       *)
(***************************************************************************)
CurChar == sample[i + 1]
Reading == pc = "scan" /\ i < Len(sample)

\* lines 36-38
SkipEscaped ==
    /\ Reading
    /\ escape_next
    /\ escape_next' = FALSE
    /\ i' = i + 1
    /\ UNCHANGED <<sample, depth, in_string, pc, result>>

\* lines 40-42
ReadBackslash ==
    /\ Reading
    /\ ~escape_next
    /\ SetsEscape(CurChar, in_string)
    /\ escape_next' = TRUE
    /\ i' = i + 1
    /\ UNCHANGED <<sample, depth, in_string, pc, result>>

\* lines 44-46
ReadQuote ==
    /\ Reading
    /\ ~escape_next
    /\ ~SetsEscape(CurChar, in_string)
    /\ TogglesString(CurChar, escape_next)
    /\ in_string' = ~in_string
    /\ i' = i + 1
    /\ UNCHANGED <<sample, depth, escape_next, pc, result>>

Plain ==
    /\ Reading
    /\ ~escape_next
    /\ ~SetsEscape(CurChar, in_string)
    /\ ~TogglesString(CurChar, escape_next)

\* lines 48-50
ReadOpenBrace ==
    /\ Plain
    /\ Structural(in_string)
    /\ CurChar = LBrace
    /\ depth' = DepthAfter(depth, CurChar)
    /\ i' = i + 1
    /\ UNCHANGED <<sample, in_string, escape_next, pc, result>>

\* lines 51-60, the branch that prints the sample and breaks
ReadCloseBraceFound ==
    /\ Plain
    /\ Structural(in_string)
    /\ CurChar = RBrace
    /\ Qualifies(DepthAfter(depth, CurChar), i)
    /\ FirstColon(sample) # -1
    /\ depth' = DepthAfter(depth, CurChar)
    /\ result' = ObjSample(sample, i)
    /\ pc' = "found"
    /\ UNCHANGED <<sample, i, in_string, escape_next>>

\* lines 51-56, the branches that go on to the next character
ReadCloseBrace ==
    /\ Plain
    /\ Structural(in_string)
    /\ CurChar = RBrace
    /\ ~(Qualifies(DepthAfter(depth, CurChar), i) /\ FirstColon(sample) # -1)
    /\ depth' = DepthAfter(depth, CurChar)
    /\ i' = i + 1
    /\ UNCHANGED <<sample, in_string, escape_next, pc, result>>

\* line 48 false, or a character that is no brace
ReadOther ==
    /\ Plain
    /\ (~Structural(in_string) \/ CurChar \notin {LBrace, RBrace})
    /\ i' = i + 1
    /\ UNCHANGED <<sample, depth, in_string, escape_next, pc, result>>

\* line 35: the for loop runs out of characters
Exhausted ==
    /\ pc = "scan"
    /\ i = Len(sample)
    /\ pc' = "exhausted"
    /\ UNCHANGED <<sample, i, depth, in_string, escape_next, result>>

ScanInit ==
    /\ sample \in Samples
    /\ i = 0
    /\ depth = 0
    /\ in_string = FALSE
    /\ escape_next = FALSE
    /\ pc = "scan"
    /\ result = NotFound

FindIdle ==
    /\ file_no = 0
    /\ chunks_read = 0
    /\ matches = 0
    /\ found_count = 0
    /\ fpc = "idle"

Init == ScanInit /\ FindIdle

Next ==
    \/ SkipEscaped /\ UNCHANGED findVars
    \/ ReadBackslash /\ UNCHANGED findVars
    \/ ReadQuote /\ UNCHANGED findVars
    \/ ReadOpenBrace /\ UNCHANGED findVars
    \/ ReadCloseBraceFound /\ UNCHANGED findVars
    \/ ReadCloseBrace /\ UNCHANGED findVars
    \/ ReadOther /\ UNCHANGED findVars
    \/ Exhausted /\ UNCHANGED findVars

Spec == Init /\ [][Next]_vars

(***************************************************************************)
(* find_comments_carefully.py: the loop over json_files and, per file,     *)
(* the chunk loop.  A chunk is modelled by the number of matches that      *)
(* re.findall returns for it; the file ends when f.read returns ''.        *)
(***************************************************************************)
Min(a, b) == IF a < b THEN a ELSE b

\* lines 16-22: the next file opens, found_count starts at 0
OpenFile ==
    /\ fpc = "open"
    /\ file_no < NumFiles
    /\ file_no' = file_no + 1
    /\ chunks_read' = 0
    /\ found_count' = 0
    /\ matches' = 0
    /\ fpc' = "while"

\* lines 18-19 and 51-52: open() raises, the error is printed, next file
OpenFails ==
    /\ fpc = "open"
    /\ file_no < NumFiles
    /\ file_no' = file_no + 1
    /\ UNCHANGED <<chunks_read, found_count, matches, fpc>>

\* line 54: every file has been searched
Finish ==
    /\ fpc = "open"
    /\ file_no = NumFiles
    /\ fpc' = "done"
    /\ UNCHANGED <<file_no, chunks_read, found_count, matches>>

\* lines 24-35: a non-empty chunk is read and matched; matches[:5] is kept
ReadChunk ==
    /\ fpc = "while"
    /\ found_count < ExamplesPerFile
    /\ chunks_read < MaxChunks
    /\ \E m \in 0..MaxMatches :
           /\ matches' = Min(m, MatchSlice)
           /\ fpc' = IF m > 0 THEN "report" ELSE "check"
    /\ chunks_read' = chunks_read + 1
    /\ UNCHANGED <<file_no, found_count>>

\* lines 24-27: f.read returns '' and the loop breaks
EndOfFile ==
    /\ fpc = "while"
    /\ found_count < ExamplesPerFile
    /\ fpc' = "open"
    /\ UNCHANGED <<file_no, chunks_read, found_count, matches>>

\* lines 35-46: one iteration of the for loop over matches[:5]
ReportMatch ==
    /\ fpc = "report"
    /\ matches > 0
    /\ found_count' = found_count + 1
    /\ matches' = matches - 1
    /\ fpc' = IF matches = 1 THEN "check" ELSE "report"
    /\ UNCHANGED <<file_no, chunks_read>>

\* lines 48-49: enough examples, leave the file
CheckBreak ==
    /\ fpc = "check"
    /\ found_count >= ExamplesPerFile
    /\ fpc' = "open"
    /\ UNCHANGED <<file_no, chunks_read, found_count, matches>>

\* line 48 false: back to the while test of line 24
CheckContinue ==
    /\ fpc = "check"
    /\ found_count < ExamplesPerFile
    /\ fpc' = "while"
    /\ UNCHANGED <<file_no, chunks_read, found_count, matches>>

ScanIdle ==
    /\ sample = <<>>
    /\ i = 0
    /\ depth = 0
    /\ in_string = FALSE
    /\ escape_next = FALSE
    /\ pc = "idle"
    /\ result = NotFound

InitFind ==
    /\ ScanIdle
    /\ file_no = 0
    /\ chunks_read = 0
    /\ matches = 0
    /\ found_count = 0
    /\ fpc = "open"

NextFind ==
    \/ OpenFile /\ UNCHANGED scanVars
    \/ OpenFails /\ UNCHANGED scanVars
    \/ Finish /\ UNCHANGED scanVars
    \/ ReadChunk /\ UNCHANGED scanVars
    \/ EndOfFile /\ UNCHANGED scanVars
    \/ ReportMatch /\ UNCHANGED scanVars
    \/ CheckBreak /\ UNCHANGED scanVars
    \/ CheckContinue /\ UNCHANGED scanVars

SpecFind == InitFind /\ [][NextFind]_vars

(***************************************************************************)
(* The loop body as a function: the flags after the first k characters of  *)
(* s when no closing brace has ended the scan (lines 36-52).               *)
(***************************************************************************)
RECURSIVE StateAfter(_, _)
StateAfter(s, k) ==
    IF k = 0
    THEN [depth |-> 0, in_string |-> FALSE, escape_next |-> FALSE]
    ELSE LET p == StateAfter(s, k - 1)
             c == s[k]
         IN  IF p.escape_next THEN [p EXCEPT !.escape_next = FALSE]
             ELSE IF SetsEscape(c, p.in_string)
                  THEN [p EXCEPT !.escape_next = TRUE]
             ELSE IF TogglesString(c, p.escape_next)
                  THEN [p EXCEPT !.in_string = ~p.in_string]
             ELSE IF Structural(p.in_string)
                  THEN [p EXCEPT !.depth = DepthAfter(p.depth, c)]
             ELSE p

\* The character at index k is a brace that the loop counts.
CountsBrace(s, k) ==
    /\ k \in 0..(Len(s) - 1)
    /\ s[k + 1] \in {LBrace, RBrace}
    /\ ~StateAfter(s, k).escape_next
    /\ Structural(StateAfter(s, k).in_string)

\* The closing brace at index k is counted and returns depth to the target.
ClosesToTarget(s, k) ==
    /\ CountsBrace(s, k)
    /\ s[k + 1] = RBrace
    /\ StateAfter(s, k + 1).depth = TargetDepth

\* The whole loop as a function of the sample (lines 35-60).
ScanResult(s) ==
    LET hits == {k \in 0..(Len(s) - 1) :
                    /\ CountsBrace(s, k)
                    /\ s[k + 1] = RBrace
                    /\ Qualifies(StateAfter(s, k + 1).depth, k)}
    IN  IF hits = {} \/ FirstColon(s) = -1
        THEN NotFound
        ELSE ObjSample(s, CHOOSE k \in hits : \A j \in hits : k <= j)

Done == pc \in {"found", "exhausted"}

\* The actions and the functional reading of the loop agree.
ScanAgrees ==
    /\ pc = "scan" =>
           /\ depth = StateAfter(sample, i).depth
           /\ in_string = StateAfter(sample, i).in_string
           /\ escape_next = StateAfter(sample, i).escape_next
    /\ Done => result = ScanResult(sample)

TypeOK ==
    /\ sample \in Samples \cup {<<>>}
    /\ i \in 0..Len(sample)
    /\ depth \in Int
    /\ in_string \in BOOLEAN
    /\ escape_next \in BOOLEAN
    /\ pc \in {"scan", "found", "exhausted", "idle"}
    /\ file_no \in 0..NumFiles
    /\ chunks_read \in 0..MaxChunks
    /\ matches \in 0..MatchSlice
    /\ found_count \in Nat
    /\ fpc \in {"idle", "open", "while", "report", "check", "done"}

(***************************************************************************)
(* Vocabulary of the claims.                                               *)
(***************************************************************************)
\* The opening brace that the counted closing brace at index k closes,
\* or -1.
MatchingOpen(s, k) ==
    LET opens == {j \in 0..(k - 1) :
                     /\ CountsBrace(s, j)
                     /\ s[j + 1] = LBrace
                     /\ StateAfter(s, j).depth = StateAfter(s, k + 1).depth
                     /\ \A m \in (j + 1)..k :
                            StateAfter(s, m).depth > StateAfter(s, j).depth}
    IN  IF opens = {} THEN -1
        ELSE CHOOSE j \in opens : \A m \in opens : m <= j

\* s[a:b] is one balanced brace-delimited region.
BalancedRegion(s, a, b) ==
    /\ 0 <= a /\ a + 1 < b /\ b <= Len(s)
    /\ CountsBrace(s, a) /\ s[a + 1] = LBrace
    /\ CountsBrace(s, b - 1) /\ s[b] = RBrace
    /\ StateAfter(s, b).depth = StateAfter(s, a).depth
    /\ \A m \in (a + 1)..(b - 1) :
           StateAfter(s, m).depth > StateAfter(s, a).depth

\* JSON's reading of quotes: a backslash escapes only inside a string.
RECURSIVE JsonAfter(_, _)
JsonAfter(s, k) ==
    IF k = 0 THEN [str |-> FALSE, esc |-> FALSE, open |-> 0]
    ELSE LET p == JsonAfter(s, k - 1)
             c == s[k]
         IN  IF p.esc THEN [p EXCEPT !.esc = FALSE]
             ELSE IF p.str /\ c = Backslash THEN [p EXCEPT !.esc = TRUE]
             ELSE IF c = Quote THEN [p EXCEPT !.str = ~p.str]
             ELSE IF ~p.str /\ c = LBrace THEN [p EXCEPT !.open = p.open + 1]
             ELSE IF ~p.str /\ c = RBrace THEN [p EXCEPT !.open = p.open - 1]
             ELSE p

\* "{" + body + "}", balanced, every string closed, no brace inside a
\* string and no backslash outside one.
WellFormed(s) ==
    /\ Len(s) >= 2
    /\ s[1] = LBrace
    /\ s[Len(s)] = RBrace
    /\ ~JsonAfter(s, Len(s)).str
    /\ JsonAfter(s, Len(s)).open = 0
    /\ \A k \in 1..(Len(s) - 1) : JsonAfter(s, k).open > 0
    /\ \A k \in 1..Len(s) :
           /\ s[k] \in {LBrace, RBrace} => ~JsonAfter(s, k - 1).str
           /\ s[k] = Backslash => JsonAfter(s, k - 1).str

WholeInput(s) == [start |-> 0, end |-> Len(s)]

\* Every character of the sample has been read.
AllRead == pc = "exhausted" \/ (pc = "found" /\ i + 1 = Len(sample))

\* No closing brace at an index above the offset.
NoCloseAfterOffset(s) ==
    \A k \in 0..(Len(s) - 1) : s[k + 1] = RBrace => k <= MinCloseOffset

FirstOf(S) == CHOOSE k \in S : \A j \in S : k <= j

(***************************************************************************)
(* C1: whenever the scan reports a match, the reported span runs from the  *)
(* '{' that the triggering '}' closes to just past that '}', and is one    *)
(* balanced brace-delimited region.                                        *)
(***************************************************************************)
C1_SpanIsMatchedRegion ==
    pc = "found" =>
        /\ result.end = i + 1
        /\ result.start = MatchingOpen(sample, i)
        /\ BalancedRegion(sample, result.start, result.end)

(***************************************************************************)
(* C2 as stated: for a well-formed '{' + body + '}' the scan reports the   *)
(* whole input, start 0 and end Len.                                       *)
(***************************************************************************)
C2_WholeInputReported ==
    (Done /\ WellFormed(sample)) => result = WholeInput(sample)

(***************************************************************************)
(* C2 amended: for a well-formed '{' + body + '}' the scan never reports   *)
(* the whole input; it reports nothing, or a span that starts just after   *)
(* the first ':' and ends just past an inner '}' that returns depth to 1   *)
(* above the offset, before the last character.                            *)
(***************************************************************************)
C2_NestedSpanOnly ==
    (Done /\ WellFormed(sample)) =>
        \/ result = NotFound
        \/ /\ pc = "found"
           /\ depth = TargetDepth
           /\ i > MinCloseOffset
           /\ result.start = FirstColon(sample) + 1
           /\ result.start > 0
           /\ result.end = i + 1
           /\ result.end < Len(sample)

C2_Witness == pc = "found" /\ WellFormed(sample)

(***************************************************************************)
(* C3 as stated, on its example: the sample with a brace inside a string   *)
(* yields the span of the whole outer object.                              *)
(***************************************************************************)
C3_FullSpanForBraceInString ==
    (Done /\ sample = BraceInStringExample) =>
        result = WholeInput(BraceInStringExample)

(***************************************************************************)
(* C3 amended: depth changes only on a step taken while in_string is       *)
(* false, no span ends at a '}' read inside a string, and the sample with  *)
(* a brace inside a string is read to its end with depth back at 0 and no  *)
(* span reported.                                                          *)
(***************************************************************************)
C3_DepthOnlyOutsideStrings ==
    /\ [][depth' # depth => (~in_string /\ ~in_string')]_vars
    /\ [](pc = "found" => ~in_string)
    /\ []((Done /\ sample = BraceInStringExample) =>
              (pc = "exhausted" /\ depth = 0 /\ result = NotFound))

C3_Witness ==
    /\ sample = BraceInStringExample
    /\ pc = "scan"
    /\ i = 19
    /\ in_string
    /\ depth = 1

(***************************************************************************)
(* C4 as stated: the sample with an escaped quote yields one span with     *)
(* start 0, end 13.                                                        *)
(***************************************************************************)
C4_EscapedQuoteSpan13 ==
    (Done /\ sample = EscapedQuoteExample) =>
        result = [start |-> 0, end |-> 13]

(***************************************************************************)
(* C4 amended: the character after a backslash never toggles in_string;    *)
(* in the sample with an escaped quote, which has 12 characters, the       *)
(* string is still open after the escaped quote, and the scan reads the    *)
(* sample to its end with in_string false, depth 0 and no span reported.   *)
(***************************************************************************)
C4_EscapedQuoteKeepsString ==
    /\ [][(pc = "scan" /\ escape_next) => in_string' = in_string]_vars
    /\ [](sample = EscapedQuoteExample =>
              /\ Len(sample) = 12
              /\ (pc = "scan" /\ i \in 9..10) => in_string
              /\ Done => /\ pc = "exhausted"
                         /\ ~in_string
                         /\ depth = 0
                         /\ result = NotFound)

C4_Witness ==
    /\ sample = EscapedQuoteExample
    /\ pc = "scan"
    /\ i = 9
    /\ in_string
    /\ ~escape_next

C6_StrayCloseTolerated ==
    (Done /\ Len(sample) >= 1 /\ sample[1] = RBrace
          /\ ScanResult(Tail(sample)) # NotFound) =>
        result = [start |-> ScanResult(Tail(sample)).start + 1,
                  end |-> ScanResult(Tail(sample)).end + 1]

(***************************************************************************)
(* C7 as stated: the scan reports the first counted '}' that returns depth *)
(* to the target at an index at or after the offset, the offset itself     *)
(* included.                                                               *)
(***************************************************************************)
C7_FirstAtOrAfterOffset ==
    Done =>
        LET hits == {k \in 0..(Len(sample) - 1) :
                        k >= MinCloseOffset /\ ClosesToTarget(sample, k)}
        IN  IF hits = {} THEN result = NotFound
            ELSE result # NotFound /\ result.end = FirstOf(hits) + 1

(***************************************************************************)
(* C7 amended: when the sample contains a ':', the scan reports the first  *)
(* counted '}' that returns depth to the target at an index strictly above *)
(* the offset; a '}' at the offset itself or below is never reported, and  *)
(* without a ':' nothing is reported.                                      *)
(***************************************************************************)
C7_FirstAboveOffset ==
    Done =>
        LET hits == {k \in 0..(Len(sample) - 1) :
                        k > MinCloseOffset /\ ClosesToTarget(sample, k)}
        IN  IF hits = {} \/ FirstColon(sample) = -1
            THEN result = NotFound /\ pc = "exhausted"
            ELSE /\ pc = "found"
                 /\ i = FirstOf(hits)
                 /\ result.end = i + 1
                 /\ result.end > MinCloseOffset + 1

C7_Witness ==
    /\ pc = "found"
    /\ ClosesToTarget(sample, MinCloseOffset)
    /\ i > MinCloseOffset

(***************************************************************************)
(* C8: escape_next is true only while in_string is true.                   *)
(***************************************************************************)
C8_EscapeOnlyInString == escape_next => in_string

(***************************************************************************)
(* C10: the number of comments reported for a file never exceeds 5.        *)
(***************************************************************************)
C10_AtMostFivePerFile == found_count <= ExamplesPerFile

====
